---- MODULE Spec2Model ----
(***************************************************************************)
(* Capability invocation gateway of clawsync: the Security Gate            *)
(* (convex/agent/security.ts), the skill registry (convex/skillRegistry.ts)*)
(* and the tool-call path (convex/mcp/server.ts, convex/http.ts route      *)
(* /api/v1/mcp/tools/call, webhookCaller).                                 *)
(***************************************************************************)
EXTENDS Naturals, Integers, Sequences, FiniteSets, TLC

(***************************************************************************)
(* Bounds of the model.                                                    *)
(***************************************************************************)
\* largest number of tokens left in a rate-limit bucket that is enumerated
MaxTokens == 2
\* number of document ids of the skillRegistry table that are enumerated
MaxSkills == 2
\* number of tool calls one behaviour issues
MaxInvocations == 2
\* number of rows one behaviour writes to skillInvocationLog
MaxLogs == 3
\* number of Summarization passes one behaviour runs
MaxAggregatePasses == 2
\* last clock value of a Summarization behaviour
MaxSumClock == 1
\* longest output enumerated character by character
MaxTextLen == 3
\* largest limit a truncation is asked for explicitly
MaxLimit == 3
\* last day, counted from the epoch, at which a next run is computed
MaxDays == 7
\* number of document ids of the scheduledTasks table that are handed out
MaxTasks == 2

(***************************************************************************)
(* Values.                                                                 *)
(***************************************************************************)
Statuses == {"pending", "active", "inactive"}
SkillTypes == {"template", "webhook", "code"}
Codes == {"passed", "unapproved", "inactive", "rate_limited",
          "domain_blocked", "input_invalid", "timeout", "mcp_unapproved"}

\* options.domain: undefined, the empty string, or a host name
Undefined == "undefined"
EmptyString == ""
Hosts == {"a.example", "b.example"}
DomainArgs == {Undefined, EmptyString} \cup Hosts

\* options.mcpServer: undefined, or a server document with its approved flag
McpServerArgs == {"none", "approved", "unapproved"}

\* field names of a tool input
Fields == {"q"}

\* skill.config is an optional JSON string.  kind says what the string is:
\*   "undefined"  the field is absent
\*   "empty"      the empty string
\*   "malformed"  a string JSON.parse rejects
\*   "object"     a JSON object; hasAllowed says whether the key
\*                allowedDomains is present, required is inputSchema.required,
\*                hasUrl says whether the key url is present
NoObject(k) ==
    [kind |-> k, hasAllowed |-> FALSE, allowedDomains |-> {},
     required |-> {}, hasUrl |-> FALSE]
Configs ==
    {NoObject("undefined"), NoObject("empty"), NoObject("malformed")}
    \cup [kind : {"object"}, hasAllowed : {TRUE}, allowedDomains : SUBSET Hosts,
          required : SUBSET Fields, hasUrl : BOOLEAN]
    \cup [kind : {"object"}, hasAllowed : {FALSE}, allowedDomains : {{}},
          required : SUBSET Fields, hasUrl : BOOLEAN]

\* the tool input: a string, null, or an object with some fields
Inputs ==
    {[kind |-> "string", fields |-> {}], [kind |-> "null", fields |-> {}]}
    \cup [kind : {"object"}, fields : SUBSET Fields]

\* the fields of a skillRegistry document that the gateway reads
SkillDocs ==
    [name : {"calc", "weather"}, skillType : SkillTypes, status : Statuses,
     approved : BOOLEAN, config : Configs]

(***************************************************************************)
(* JSON.parse(skill.config) as used by checkSecurity, handleToolsList and  *)
(* webhookCaller.                                                          *)
(***************************************************************************)
\* JSON.parse throws a SyntaxError on the empty string and on malformed text
JsonParseThrows(config) == config.kind \in {"empty", "malformed"}

\* config.allowedDomains || []
AllowedDomainsOf(config) ==
    IF config.kind = "object" /\ config.hasAllowed
    THEN config.allowedDomains ELSE {}

\* a JavaScript string is truthy iff it is defined and not empty
Truthy(s) == s # Undefined /\ s # EmptyString

(***************************************************************************)
(* validateInput(input, schemaString): null when valid, else a message.    *)
(* A schema string is malformed text or the JSON of a schema with an       *)
(* optional type "object" and a list of required fields.                   *)
(***************************************************************************)
Null == "null"
Schemas ==
    {[kind |-> "malformed", typeObject |-> FALSE, required |-> {}]}
    \cup [kind : {"json"}, typeObject : BOOLEAN, required : SUBSET Fields]

validateInput(input, schema) ==
    IF schema.kind = "malformed"
    THEN "Invalid schema"
    ELSE IF schema.typeObject /\ input.kind = "string"
    THEN "Input must be an object"
    ELSE IF schema.required # {}
    THEN IF input.kind # "object"
         THEN "Invalid schema"      \* `field in input` throws, caught
         ELSE IF \E f \in schema.required : f \notin input.fields
              THEN "Missing required field"
              ELSE Null
    ELSE Null

\* the inputSchema a skill's config declares, as handleToolsList reads it
InputSchemaOf(config) ==
    [kind |-> "json", typeObject |-> TRUE,
     required |-> IF config.kind = "object" THEN config.required ELSE {}]

(***************************************************************************)
(* checkSecurity(_ctx, skill, _input, options).                            *)
(***************************************************************************)
Verdict(a, c) == [kind |-> "verdict", allowed |-> a, code |-> c]
\* the call ended with an exception instead of a verdict
Raised == [kind |-> "raised", allowed |-> FALSE, code |-> "none"]
NoResult == [kind |-> "none", allowed |-> FALSE, code |-> "none"]

\* the domain-allowlist and MCP-server checks (steps 4 and 5 of the code)
DomainAndServerChecks(skill, options) ==
    IF skill.skillType = "webhook" /\ Truthy(options.domain)
       /\ skill.config.kind = "malformed"
    THEN Raised
    ELSE IF skill.skillType = "webhook" /\ Truthy(options.domain)
            /\ AllowedDomainsOf(skill.config) # {}
            /\ options.domain \notin AllowedDomainsOf(skill.config)
    THEN Verdict(FALSE, "domain_blocked")
    ELSE IF options.mcpServer # "none" /\ options.mcpServer # "approved"
    THEN Verdict(FALSE, "mcp_unapproved")
    ELSE Verdict(TRUE, "passed")

\* checkSecurity without the status check
checkSecurity_NoStatusCheck(skill, input, options) ==
    IF ~skill.approved
    THEN Verdict(FALSE, "unapproved")
    ELSE DomainAndServerChecks(skill, options)

\* checkSecurity without the approval check
checkSecurity_NoApprovalCheck(skill, input, options) ==
    IF skill.status # "active"
    THEN Verdict(FALSE, "inactive")
    ELSE DomainAndServerChecks(skill, options)

\* checkSecurity with the status check ahead of the approval check
checkSecurity_StatusFirst(skill, input, options) ==
    IF skill.status # "active"
    THEN Verdict(FALSE, "inactive")
    ELSE IF ~skill.approved
    THEN Verdict(FALSE, "unapproved")
    ELSE DomainAndServerChecks(skill, options)

\* checkSecurity without the MCP-server check
checkSecurity_NoMcpCheck(skill, input, options) ==
    IF ~skill.approved
    THEN Verdict(FALSE, "unapproved")
    ELSE IF skill.status # "active"
    THEN Verdict(FALSE, "inactive")
    ELSE IF skill.skillType = "webhook" /\ Truthy(options.domain)
            /\ skill.config.kind = "malformed"
    THEN Raised
    ELSE IF skill.skillType = "webhook" /\ Truthy(options.domain)
            /\ AllowedDomainsOf(skill.config) # {}
            /\ options.domain \notin AllowedDomainsOf(skill.config)
    THEN Verdict(FALSE, "domain_blocked")
    ELSE Verdict(TRUE, "passed")

\* checkSecurity without the test allowedDomains.length > 0
checkSecurity_EmptyAllowlistBlocks(skill, input, options) ==
    IF ~skill.approved
    THEN Verdict(FALSE, "unapproved")
    ELSE IF skill.status # "active"
    THEN Verdict(FALSE, "inactive")
    ELSE IF skill.skillType = "webhook" /\ Truthy(options.domain)
            /\ skill.config.kind = "malformed"
    THEN Raised
    ELSE IF skill.skillType = "webhook" /\ Truthy(options.domain)
            /\ options.domain \notin AllowedDomainsOf(skill.config)
    THEN Verdict(FALSE, "domain_blocked")
    ELSE IF options.mcpServer # "none" /\ options.mcpServer # "approved"
    THEN Verdict(FALSE, "mcp_unapproved")
    ELSE Verdict(TRUE, "passed")

\* checkSecurity that reports an unapproved MCP server without blocking
checkSecurity_McpWarnsOnly(skill, input, options) ==
    IF ~skill.approved
    THEN Verdict(FALSE, "unapproved")
    ELSE IF skill.status # "active"
    THEN Verdict(FALSE, "inactive")
    ELSE IF skill.skillType = "webhook" /\ Truthy(options.domain)
            /\ skill.config.kind = "malformed"
    THEN Raised
    ELSE IF skill.skillType = "webhook" /\ Truthy(options.domain)
            /\ AllowedDomainsOf(skill.config) # {}
            /\ options.domain \notin AllowedDomainsOf(skill.config)
    THEN Verdict(FALSE, "domain_blocked")
    ELSE IF options.mcpServer # "none" /\ options.mcpServer # "approved"
    THEN Verdict(TRUE, "mcp_unapproved")
    ELSE Verdict(TRUE, "passed")

checkSecurity(skill, input, options) ==
    IF ~skill.approved
    THEN Verdict(FALSE, "unapproved")
    ELSE IF skill.status # "active"
    THEN Verdict(FALSE, "inactive")
    \* 3. rate limiting: nothing is evaluated here
    ELSE IF skill.skillType = "webhook" /\ Truthy(options.domain)
            /\ skill.config.kind = "malformed"
    THEN Raised
    ELSE IF skill.skillType = "webhook" /\ Truthy(options.domain)
            /\ AllowedDomainsOf(skill.config) # {}
            /\ options.domain \notin AllowedDomainsOf(skill.config)
    THEN Verdict(FALSE, "domain_blocked")
    ELSE IF options.mcpServer # "none" /\ options.mcpServer # "approved"
    THEN Verdict(FALSE, "mcp_unapproved")
    ELSE Verdict(TRUE, "passed")

(***************************************************************************)
(* skillRegistry.create: the document it inserts.                          *)
(***************************************************************************)
Names == {"calc", "weather"}

\* a webhook configuration with a url and an allowlist of one host
WebhookConfig ==
    [kind |-> "object", hasAllowed |-> TRUE, allowedDomains |-> {"a.example"},
     required |-> {}, hasUrl |-> TRUE]
RegConfigs == {NoObject("undefined"), WebhookConfig}

\* arguments of create; extra says whether the caller added the fields
\* approved: true and status: 'active' to the argument object
CreateArgs ==
    [name : Names, skillType : {"webhook"}, config : RegConfigs,
     extra : {"none", "approved_active"}]

\* the args validator of create lists neither approved nor status, and an
\* argument object with a field the validator does not list is rejected
CreateArgsValid(args) == args.extra = "none"

\* create with 'active' as the initial status
NewSkillDoc_StartsActive(args) ==
    [name |-> args.name, skillType |-> args.skillType, status |-> "active",
     approved |-> FALSE, config |-> args.config]

NewSkillDoc(args) ==
    [name |-> args.name, skillType |-> args.skillType, status |-> "pending",
     approved |-> FALSE, config |-> args.config]

\* arguments of update besides id: each field is optional; extra says whether
\* the caller added the field approved: true to the argument object, alone or
\* next to a status
UpdateArgs ==
    [name : Names \cup {Undefined}, status : Statuses \cup {Undefined},
     hasConfig : BOOLEAN, extra : {"none"}]
    \cup [name : {Undefined}, status : {Undefined, "active"},
          hasConfig : {FALSE}, extra : {"approved"}]

\* an args validator that lets the field approved through
UpdateArgsValid_AllowsApproved(updates) == TRUE

\* the args validator of update does not list approved
UpdateArgsValid(updates) == updates.extra = "none"

\* ctx.db.patch(id, {...updates}): every field of the argument object is
\* patched, and a field left undefined is not changed
PatchedDoc(doc, updates) ==
    [doc EXCEPT
       !.name = IF updates.name = Undefined THEN @ ELSE updates.name,
       !.status = IF updates.status = Undefined THEN @ ELSE updates.status,
       !.config = IF updates.hasConfig THEN WebhookConfig ELSE @,
       !.approved = IF updates.extra = "approved" THEN TRUE ELSE @]

(***************************************************************************)
(* State.                                                                  *)
(***************************************************************************)
VARIABLES
    gSkill,        \* gate call: the skill document handed to checkSecurity
    gInput,        \* gate call: the input
    gOptions,      \* gate call: options.domain and options.mcpServer
    gTokens,       \* tokens left in the rate-limit buckets of the call's
                   \* scopes: [capability |-> n, server |-> n]
    gResult,       \* gate call: what checkSecurity returned
    skills,        \* table skillRegistry: document id -> document
    nextId,        \* the next document id the table hands out
    secrets,       \* table skillSecrets: set of [skillId, key]
    regResult,     \* how the last registry mutation ended
    iSkill,        \* tool calls: the skillRegistry document the calls resolve
    inv,           \* tool calls: the call in progress and its position
    events,        \* tool calls: gate / exec / audit steps of the call so far
    auditLog,      \* table skillInvocationLog, oldest first
    httpCalls,     \* outbound HTTP requests issued: sequence of call numbers
    apiUsage,      \* number of rows of table apiUsage
    requests,      \* number of tool-call requests received
    invocations,   \* call numbers of the requests that resolved a capability
    lastResponse,  \* HTTP status of the last response sent
    now,           \* Date.now(), in the time unit of the specification
    summary,       \* table skillInvocationSummary: skillName -> document
    aggPasses,     \* number of Summarization passes run
    covered,       \* number of log rows that existed at the last pass
    tText,         \* truncation: the output produced, a sequence of characters
    tSite,         \* truncation: the place that truncates it
    tArg,          \* truncation: the limit that place was given, if any
    tOut,          \* truncation: the text after one truncation
    tOut2,         \* truncation: the text after truncating tOut again
    tStage,        \* truncation: how many truncations have been applied
    cSchedule,     \* next-run computation: the recurrence rule passed
    cNext,         \* next-run computation: <<result>>, <<>> before the call
    tasks,         \* table scheduledTasks: document id -> document
    nextTaskId,    \* the next document id the table hands out
    scheduleRuns,  \* number of rows of table scheduleRuns
    passes,        \* the checkAndExecute runs: pass -> its position and data
    wCall          \* webhook executor: the call's arguments and what it did

gateVars == <<gSkill, gInput, gOptions, gTokens, gResult>>
regVars == <<skills, nextId, secrets, regResult>>
invVars == <<iSkill, inv, events, auditLog, httpCalls, apiUsage, requests,
             invocations, lastResponse>>
vars == <<gSkill, gInput, gOptions, gTokens, gResult,
          skills, nextId, secrets, regResult,
          iSkill, inv, events, auditLog, httpCalls, apiUsage, requests,
          invocations, lastResponse, now, summary, aggPasses, covered,
          tText, tSite, tArg, tOut, tOut2, tStage, cSchedule, cNext,
          tasks, nextTaskId, scheduleRuns, passes, wCall>>

sumVars == <<summary, aggPasses, covered>>
truncVars == <<tText, tSite, tArg, tOut, tOut2, tStage>>
\* the state of the components a specification does not exercise
calcVars == <<cSchedule, cNext>>
schedVars == <<tasks, nextTaskId, scheduleRuns, passes>>
moreVars == <<now, sumVars, truncVars, calcVars, schedVars, wCall>>
notSumVars == <<gateVars, regVars, truncVars, calcVars, schedVars, wCall>>
notTruncVars == <<gateVars, regVars, invVars, now, sumVars, calcVars, schedVars,
                  wCall>>
notCalcVars == <<gateVars, regVars, invVars, sumVars, truncVars, schedVars,
                 wCall>>
notSchedVars == <<gateVars, regVars, invVars, sumVars, truncVars, calcVars,
                  wCall>>

OptionArgs == [domain : DomainArgs, mcpServer : McpServerArgs]
TokenStates == [capability : 0..MaxTokens, server : 0..MaxTokens]

GateIdle ==
    /\ gSkill = [name |-> "calc", skillType |-> "code", status |-> "pending",
                 approved |-> FALSE, config |-> NoObject("undefined")]
    /\ gInput = [kind |-> "null", fields |-> {}]
    /\ gOptions = [domain |-> Undefined, mcpServer |-> "none"]
    /\ gTokens = [capability |-> 0, server |-> 0]
    /\ gResult = NoResult

RegInit ==
    /\ skills = <<>>
    /\ nextId = 1
    /\ secrets = {}
    /\ regResult = "none"

SumIdle ==
    /\ summary = <<>>
    /\ aggPasses = 0
    /\ covered = 0

TruncIdle ==
    /\ tText = <<>>
    /\ tSite = "log"
    /\ tArg = <<>>
    /\ tOut = <<>>
    /\ tOut2 = <<>>
    /\ tStage = 0

CalcIdle ==
    /\ cSchedule = [type |-> "interval", time |-> <<>>, dayOfWeek |-> <<>>,
                    intervalMinutes |-> <<>>]
    /\ cNext = <<>>

\* the checkAndExecute runs that can be in progress together
Passes == {"cron"}
IdlePass == [pc |-> "idle", dueTasks |-> <<>>, i |-> 0, results |-> <<>>]

SchedIdle ==
    /\ tasks = <<>>
    /\ nextTaskId = 1
    /\ scheduleRuns = 0
    /\ passes = [p \in Passes |-> IdlePass]

WebIdle ==
    wCall = [pc |-> "idle", skillId |-> 0, config |-> NoObject("undefined"),
             headers |-> <<>>, response |-> "none", requests |-> <<>>,
             outcome |-> "none"]

MoreIdle ==
    /\ now = 0
    /\ SumIdle
    /\ TruncIdle
    /\ CalcIdle
    /\ SchedIdle
    /\ WebIdle

IdleCall ==
    [pc |-> "idle", id |-> 0, caller |-> "none", apiKey |-> FALSE, name |-> "",
     input |-> [kind |-> "null", fields |-> {}],
     options |-> [domain |-> Undefined, mcpServer |-> "none"],
     verdict |-> NoResult, outcome |-> "none"]

InvIdle ==
    /\ iSkill = [name |-> "calc", skillType |-> "code", status |-> "pending",
                 approved |-> FALSE, config |-> NoObject("undefined"),
                 templateId |-> Undefined]
    /\ inv = IdleCall
    /\ events = <<>>
    /\ auditLog = <<>>
    /\ httpCalls = <<>>
    /\ apiUsage = 0
    /\ requests = 0
    /\ invocations = {}
    /\ lastResponse = 0

(***************************************************************************)
(* The gate as called on one invocation: any skill document, any context.  *)
(***************************************************************************)
GateInit ==
    /\ gSkill \in SkillDocs
    /\ gInput \in Inputs
    /\ gOptions \in OptionArgs
    /\ gTokens \in TokenStates
    /\ gResult = NoResult
    /\ RegInit
    /\ InvIdle
    /\ MoreIdle

GateCall ==
    /\ gResult = NoResult
    /\ gResult' = checkSecurity(gSkill, gInput, gOptions)
    /\ UNCHANGED <<gSkill, gInput, gOptions, gTokens>>
    /\ UNCHANGED <<regVars, invVars, moreVars>>

GateNext == GateCall

SpecGate == GateInit /\ [][GateNext]_vars

(***************************************************************************)
(* The skill registry and the skill secrets (mutations of                  *)
(* convex/skillRegistry.ts and convex/skillSecrets.ts).                    *)
(***************************************************************************)
SecretKeys == {"API_KEY"}

\* .withIndex('by_name', q => q.eq('name', name)).first()
getByName(name) == {id \in DOMAIN skills : skills[id].name = name}

\* getActiveApproved without the filter on approved
getActiveApproved_NoApprovedFilter ==
    {id \in DOMAIN skills : skills[id].status = "active"}

\* .withIndex('by_status', q => q.eq('status', 'active'))
\* .filter(q => q.eq(q.field('approved'), true))
getActiveApproved ==
    {id \in DOMAIN skills : skills[id].status = "active" /\ skills[id].approved}

\* handleToolsList: the names of the tools tools/list answers with
handleToolsList == {skills[id].name : id \in getActiveApproved}

create(args) ==
    /\ nextId <= MaxSkills
    /\ IF ~CreateArgsValid(args)
       THEN /\ regResult' = "ArgumentValidationError"
            /\ UNCHANGED <<skills, nextId, secrets>>
       ELSE IF getByName(args.name) # {}
       THEN /\ regResult' = "already exists"
            /\ UNCHANGED <<skills, nextId, secrets>>
       ELSE /\ skills' = skills @@ (nextId :> NewSkillDoc(args))
            /\ nextId' = nextId + 1
            /\ regResult' = "ok"
            /\ UNCHANGED secrets
    /\ UNCHANGED <<gateVars, invVars, moreVars>>

update(id, updates) ==
    /\ id \in DOMAIN skills
    /\ IF ~UpdateArgsValid(updates)
       THEN /\ regResult' = "ArgumentValidationError"
            /\ UNCHANGED skills
       ELSE /\ skills' = [skills EXCEPT ![id] = PatchedDoc(@, updates)]
            /\ regResult' = "ok"
    /\ UNCHANGED <<nextId, secrets>>
    /\ UNCHANGED <<gateVars, invVars, moreVars>>

approve(id) ==
    /\ id \in DOMAIN skills
    /\ skills' = [skills EXCEPT ![id].approved = TRUE]
    /\ regResult' = "ok"
    /\ UNCHANGED <<nextId, secrets>>
    /\ UNCHANGED <<gateVars, invVars, moreVars>>

\* reject that only takes the approval back
reject_KeepsStatus(id) ==
    /\ id \in DOMAIN skills
    /\ skills' = [skills EXCEPT ![id].approved = FALSE]
    /\ regResult' = "ok"
    /\ UNCHANGED <<nextId, secrets>>
    /\ UNCHANGED <<gateVars, invVars, moreVars>>

reject(id) ==
    /\ id \in DOMAIN skills
    /\ skills' = [skills EXCEPT ![id].approved = FALSE,
                                ![id].status = "inactive"]
    /\ regResult' = "ok"
    /\ UNCHANGED <<nextId, secrets>>
    /\ UNCHANGED <<gateVars, invVars, moreVars>>

\* remove without the deletion of the secrets
remove_KeepsSecrets(id) ==
    /\ id \in DOMAIN skills
    /\ skills' = [i \in DOMAIN skills \ {id} |-> skills[i]]
    /\ regResult' = "ok"
    /\ UNCHANGED <<nextId, secrets>>
    /\ UNCHANGED <<gateVars, invVars, moreVars>>

remove(id) ==
    /\ id \in DOMAIN skills
    /\ secrets' = {s \in secrets : s.skillId # id}
    /\ skills' = [i \in DOMAIN skills \ {id} |-> skills[i]]
    /\ regResult' = "ok"
    /\ UNCHANGED nextId
    /\ UNCHANGED <<gateVars, invVars, moreVars>>

\* a mutation on the id of a deleted document: patch and delete throw
mutateDeleted(id) ==
    /\ id \in 1..(nextId - 1)
    /\ id \notin DOMAIN skills
    /\ regResult # "not found"
    /\ regResult' = "not found"
    /\ UNCHANGED <<skills, nextId, secrets>>
    /\ UNCHANGED <<gateVars, invVars, moreVars>>

\* skillSecrets.add: the skill id is an id the table once handed out
addSecret(skillId, key) ==
    /\ skillId \in 1..(nextId - 1)
    /\ IF \E s \in secrets : s.skillId = skillId /\ s.key = key
       THEN /\ regResult' = "already exists"
            /\ UNCHANGED secrets
       ELSE /\ secrets' = secrets \cup {[skillId |-> skillId, key |-> key]}
            /\ regResult' = "ok"
    /\ UNCHANGED <<skills, nextId>>
    /\ UNCHANGED <<gateVars, invVars, moreVars>>

Init == GateIdle /\ RegInit /\ InvIdle /\ MoreIdle

Next ==
    \/ \E args \in CreateArgs : create(args)
    \/ \E id \in 1..MaxSkills : reject(id)
    \/ \E id \in 1..MaxSkills : approve(id)
    \/ \E id \in 1..MaxSkills, updates \in UpdateArgs : update(id, updates)
    \/ \E id \in 1..MaxSkills : remove(id)
    \/ \E id \in 1..MaxSkills : mutateDeleted(id)
    \/ \E id \in 1..MaxSkills, key \in SecretKeys : addSecret(id, key)

Spec == Init /\ [][Next]_vars

\* the registry driven by create and update only
CreateUpdateNext ==
    \/ \E args \in CreateArgs : create(args)
    \/ \E id \in 1..MaxSkills, updates \in UpdateArgs : update(id, updates)

SpecCreateUpdate == Init /\ [][CreateUpdateNext]_vars

(***************************************************************************)
(* Executors (convex/agent/skills: webhookCaller and the template          *)
(* executor).  response is what the remote end answers to a fetch.         *)
(***************************************************************************)
Responses == {"ok", "non2xx", "redirect"}
TemplateIds == {"calculator", "api-caller", "other"}

\* what an executor call did: whether it issued a fetch and how it ended
Ran(fetched, result) == [fetched |-> fetched, result |-> result]

\* webhookCaller({config, input, skillId}); redirect: 'error' makes fetch
\* reject on a redirect response, a non-2xx response throws
webhookCaller(config, response) ==
    IF config.kind = "undefined" \/ JsonParseThrows(config)
    THEN Ran(FALSE, "error")
    ELSE IF ~config.hasUrl
    THEN Ran(FALSE, "error")
    ELSE IF response = "ok"
    THEN Ran(TRUE, "output")
    ELSE Ran(TRUE, "error")

\* execute({templateId, config, input}); the calculator evaluates its input
\* without a fetch and throws on an invalid expression, api-caller fetches
\* config.url, any other template id throws
execute(templateId, config, input, response) ==
    IF config.kind = "undefined" \/ JsonParseThrows(config)
    THEN Ran(FALSE, "error")
    ELSE IF templateId = "calculator"
    THEN Ran(FALSE, IF input.kind = "string" THEN "output" ELSE "error")
    ELSE IF templateId = "api-caller"
    THEN Ran(TRUE, IF response = "ok" THEN "output" ELSE "error")
    ELSE Ran(FALSE, "error")

(***************************************************************************)
(* The tool-call path: POST /api/v1/mcp/tools/call and the MCP server's    *)
(* tools/call both run internal.mcp.executeTool and answer with its result.*)
(***************************************************************************)
InvokeConfigs ==
    {NoObject("undefined"), NoObject("malformed"), WebhookConfig,
     [WebhookConfig EXCEPT !.hasUrl = FALSE]}

InvokeSkills ==
    [name : {"weather"}, skillType : {"webhook", "code"}, status : Statuses,
     approved : BOOLEAN, config : InvokeConfigs, templateId : {Undefined}]
    \cup [name : {"weather"}, skillType : {"template"}, status : Statuses,
          approved : BOOLEAN, config : InvokeConfigs, templateId : TemplateIds]

InvokeInputs ==
    {[kind |-> "string", fields |-> {}], [kind |-> "object", fields |-> {}]}
InvokeOptions ==
    [domain : {Undefined, "a.example", "b.example"},
     mcpServer : {"none", "unapproved"}]
\* body.name of a request: missing, a registered name, an unknown name
ToolNames == {Undefined, "weather", "nosuch"}

InvokeInit ==
    /\ GateIdle
    /\ RegInit
    /\ iSkill \in InvokeSkills
    /\ inv = IdleCall
    /\ events = <<>>
    /\ auditLog = <<>>
    /\ httpCalls = <<>>
    /\ apiUsage = 0
    /\ requests = 0
    /\ invocations = {}
    /\ lastResponse = 0
    /\ MoreIdle

StartedCall(id, caller, apiKey, name, input, options) ==
    [pc |-> "resolve", id |-> id, caller |-> caller, apiKey |-> apiKey, name |-> name,
     input |-> input, options |-> options, verdict |-> NoResult,
     outcome |-> "none"]

\* POST /api/v1/mcp/tools/call up to the call of executeTool
HttpToolsCall(authValid, apiKey, name, input, options) ==
    /\ inv.pc = "idle"
    /\ requests < MaxInvocations
    /\ requests' = requests + 1
    /\ events' = <<>>
    /\ IF ~authValid
       THEN /\ lastResponse' = 401
            /\ UNCHANGED inv
       ELSE IF name = Undefined
       THEN /\ lastResponse' = 400
            /\ UNCHANGED inv
       ELSE /\ inv' = StartedCall(requests + 1, "http", apiKey, name, input, options)
            /\ lastResponse' = 0
    /\ UNCHANGED <<iSkill, auditLog, httpCalls, apiUsage, invocations>>
    /\ UNCHANGED <<gateVars, regVars, moreVars>>

\* handleToolsCall up to the call of executeTool
handleToolsCall(name, input, options) ==
    /\ inv.pc = "idle"
    /\ requests < MaxInvocations
    /\ name # Undefined
    /\ requests' = requests + 1
    /\ events' = <<>>
    /\ inv' = StartedCall(requests + 1, "mcp", FALSE, name, input, options)
    /\ lastResponse' = 0
    /\ UNCHANGED <<iSkill, auditLog, httpCalls, apiUsage, invocations>>
    /\ UNCHANGED <<gateVars, regVars, moreVars>>

\* executeTool: resolve the capability by name
executeToolResolve ==
    /\ inv.pc = "resolve"
    /\ inv' = IF inv.name = iSkill.name
              THEN [inv EXCEPT !.pc = "gate"]
              ELSE [inv EXCEPT !.pc = "respond", !.outcome = "error"]
    /\ invocations' = IF inv.name = iSkill.name
                      THEN invocations \cup {inv.id} ELSE invocations
    /\ UNCHANGED <<iSkill, events, auditLog, httpCalls, apiUsage, requests,
                   lastResponse>>
    /\ UNCHANGED <<gateVars, regVars, moreVars>>

\* executeTool: the Security Gate
executeToolGate ==
    /\ inv.pc = "gate"
    /\ LET verdict == checkSecurity(iSkill, inv.input, inv.options)
       IN  /\ inv' = [inv EXCEPT !.verdict = verdict,
                                 !.pc = IF verdict.allowed THEN "dispatch"
                                        ELSE "audit",
                                 !.outcome = IF verdict.allowed THEN "none"
                                             ELSE "error"]
           /\ events' = Append(events, "gate")
    /\ UNCHANGED <<iSkill, auditLog, httpCalls, apiUsage, requests,
                   invocations, lastResponse>>
    /\ UNCHANGED <<gateVars, regVars, moreVars>>

\* executeTool: Executor Dispatch by capability kind
executeToolDispatch(response, handlerResult) ==
    /\ inv.pc = "dispatch"
    /\ LET ran == CASE iSkill.skillType = "webhook" ->
                         webhookCaller(iSkill.config, response)
                    [] iSkill.skillType = "template" ->
                         execute(iSkill.templateId, iSkill.config, inv.input,
                                 response)
                    [] OTHER -> Ran(FALSE, handlerResult)
       IN  /\ inv' = [inv EXCEPT !.pc = "audit", !.outcome = ran.result]
           /\ httpCalls' = IF ran.fetched THEN Append(httpCalls, inv.id)
                           ELSE httpCalls
    /\ events' = Append(events, "exec")
    /\ UNCHANGED <<iSkill, auditLog, apiUsage, requests, invocations,
                   lastResponse>>
    /\ UNCHANGED <<gateVars, regVars, moreVars>>

\* the row executeTool appends to skillInvocationLog
AuditRecord(call, skill, verdict, outcome) ==
    [call |-> call, skillName |-> skill.name, success |-> outcome = "output",
     code |-> verdict.code]

\* the Audit write skipped when the gate denied the call
executeToolAudit_SkipsDenied ==
    /\ inv.pc = "audit"
    /\ auditLog' = IF inv.verdict.allowed
                   THEN Append(auditLog, AuditRecord(inv.id, iSkill,
                                                     inv.verdict, inv.outcome))
                   ELSE auditLog
    /\ events' = Append(events, "audit")
    /\ inv' = [inv EXCEPT !.pc = "respond"]
    /\ UNCHANGED <<iSkill, httpCalls, apiUsage, requests, invocations,
                   lastResponse>>
    /\ UNCHANGED <<gateVars, regVars, moreVars>>

\* executeTool: the Audit write
executeToolAudit ==
    /\ inv.pc = "audit"
    /\ auditLog' = Append(auditLog,
                          AuditRecord(inv.id, iSkill, inv.verdict, inv.outcome))
    /\ events' = Append(events, "audit")
    /\ inv' = [inv EXCEPT !.pc = "respond"]
    /\ UNCHANGED <<iSkill, httpCalls, apiUsage, requests, invocations,
                   lastResponse>>
    /\ UNCHANGED <<gateVars, regVars, moreVars>>

\* the caller after executeTool returned: usage log (HTTP route with an API
\* key only) and the response
respond ==
    /\ inv.pc = "respond"
    /\ apiUsage' = IF inv.caller = "http" /\ inv.apiKey THEN apiUsage + 1
                   ELSE apiUsage
    /\ lastResponse' = IF inv.outcome = "error" THEN 400 ELSE 200
    /\ inv' = [inv EXCEPT !.pc = "idle"]
    /\ UNCHANGED <<iSkill, events, auditLog, httpCalls, requests,
                   invocations>>
    /\ UNCHANGED <<gateVars, regVars, moreVars>>

InvokeNext ==
    \/ \E authValid \in BOOLEAN, apiKey \in BOOLEAN, name \in ToolNames,
          input \in InvokeInputs, options \in InvokeOptions :
          HttpToolsCall(authValid, apiKey, name, input, options)
    \/ \E name \in ToolNames, input \in InvokeInputs,
          options \in InvokeOptions :
          handleToolsCall(name, input, options)
    \/ executeToolResolve
    \/ executeToolGate
    \/ \E response \in Responses, handlerResult \in {"output", "error"} :
          executeToolDispatch(response, handlerResult)
    \/ executeToolAudit
    \/ respond

SpecInvoke == InvokeInit /\ [][InvokeNext]_vars

(***************************************************************************)
(* Properties of the Security Gate (SpecGate).                             *)
(***************************************************************************)
GateDone == gResult # NoResult

\* the rate-limit quota of the call's scopes is exhausted: scope capability,
\* and scope server when the tool belongs to an external server
QuotaExhausted ==
    \/ gTokens.capability = 0
    \/ gOptions.mcpServer # "none" /\ gTokens.server = 0

\* the input fails validation against the capability's inputSchema
InputInvalid == validateInput(gInput, InputSchemaOf(gSkill.config)) # Null

\* the input is an object that lacks a field the inputSchema requires
LacksRequiredField ==
    /\ gSkill.config.kind = "object"
    /\ gInput.kind = "object"
    /\ \E f \in gSkill.config.required : f \notin gInput.fields

\* a webhook capability, a domain in the context, a non-empty allowlist that
\* does not contain the domain
DomainNotListed ==
    /\ gSkill.skillType = "webhook"
    /\ Truthy(gOptions.domain)
    /\ AllowedDomainsOf(gSkill.config) # {}
    /\ gOptions.domain \notin AllowedDomainsOf(gSkill.config)

\* C1: a capability with approved = false or status != active is never
\* allowed by the gate, whatever the domain, server record, input and quota.
C1_NotCallableNeverAllowed ==
    (GateDone /\ (~gSkill.approved \/ gSkill.status # "active"))
        => gResult.allowed = FALSE

C1_Witness ==
    /\ GateDone
    /\ gSkill.approved /\ gSkill.status = "inactive"
    /\ gTokens.capability > 0
    /\ gOptions.mcpServer = "approved"
    /\ gResult = Verdict(FALSE, "inactive")

\* C5: a capability that is unapproved, rate-limited and given invalid input
\* at once gets the verdict code unapproved.
C5_UnapprovedWinsOverLaterChecks ==
    (GateDone /\ ~gSkill.approved /\ QuotaExhausted /\ InputInvalid)
        => gResult = Verdict(FALSE, "unapproved")

C5_Witness ==
    /\ GateDone
    /\ ~gSkill.approved /\ gSkill.status = "inactive"
    /\ QuotaExhausted /\ LacksRequiredField
    /\ gResult.code = "unapproved"

\* the reason code the documented order of the six checks gives
FirstFailingCheck ==
    IF ~gSkill.approved THEN "unapproved"
    ELSE IF gSkill.status # "active" THEN "inactive"
    ELSE IF QuotaExhausted THEN "rate_limited"
    ELSE IF DomainNotListed THEN "domain_blocked"
    ELSE IF InputInvalid THEN "input_invalid"
    ELSE IF gOptions.mcpServer = "unapproved" THEN "mcp_unapproved"
    ELSE "passed"

\* C6: the checks run in the order approved, status, rate limit, domain
\* allowlist, input schema, owning-server approval, and the verdict carries
\* the code of the first failing check.
C6_CodeOfFirstFailingCheck ==
    (GateDone /\ gSkill.config.kind # "malformed")
        => gResult.code = FirstFailingCheck

\* C7: an approved, active capability whose quota is exhausted is denied
\* with code rate_limited.
C7_ExhaustedQuotaDenied ==
    (GateDone /\ gSkill.approved /\ gSkill.status = "active" /\ QuotaExhausted)
        => gResult = Verdict(FALSE, "rate_limited")

\* C8: an approved, active capability within quota, whose domain check
\* passes, called with an input that lacks a required field, is denied with
\* code input_invalid.
C8_MissingRequiredFieldDenied ==
    (/\ GateDone
     /\ gSkill.approved /\ gSkill.status = "active"
     /\ ~QuotaExhausted
     /\ ~DomainNotListed
     /\ LacksRequiredField)
        => gResult = Verdict(FALSE, "input_invalid")

\* C9: a tool whose owning server record is unapproved is never allowed,
\* whatever the tool's own approved flag, status and domain state.
C9_UnapprovedServerNeverAllowed ==
    (GateDone /\ gOptions.mcpServer = "unapproved") => gResult.allowed = FALSE

C9_Witness ==
    /\ GateDone
    /\ gSkill.approved /\ gSkill.status = "active"
    /\ ~DomainNotListed
    /\ gOptions.mcpServer = "unapproved"
    /\ gResult = Verdict(FALSE, "mcp_unapproved")

\* C10: for an approved, active capability the gate denies with
\* domain_blocked exactly when the capability is a webhook, the context has a
\* domain and the allowlist is non-empty and does not contain it; with an
\* empty allowlist every domain passes the gate.
C10_DomainBlockedExactly ==
    (GateDone /\ gSkill.approved /\ gSkill.status = "active")
        => /\ gResult.code = "domain_blocked" <=> DomainNotListed
           /\ (/\ gSkill.skillType = "webhook"
               /\ Truthy(gOptions.domain)
               /\ gSkill.config.kind = "object"
               /\ AllowedDomainsOf(gSkill.config) = {}
               /\ gOptions.mcpServer # "unapproved")
                 => gResult = Verdict(TRUE, "passed")

C10_Witness ==
    /\ GateDone
    /\ gSkill.approved /\ gSkill.status = "active"
    /\ gSkill.skillType = "webhook"
    /\ gSkill.config.allowedDomains = {"a.example"}
    /\ gOptions.domain = "b.example"
    /\ gOptions.mcpServer = "unapproved"
    /\ gResult = Verdict(FALSE, "domain_blocked")

\* C11: the gate always produces a verdict and never raises, also for a
\* webhook capability whose stored config string is malformed.
C11_AlwaysAVerdict == GateDone => gResult.kind = "verdict"

(***************************************************************************)
(* Properties of the registry (Spec).                                      *)
(***************************************************************************)
\* C2: every document that registration inserts has approved = false and
\* status = pending; no argument of create sets either field.
C2_CreatedPendingUnapproved ==
    [][\A id \in 1..MaxSkills :
          (id \notin DOMAIN skills /\ id \in DOMAIN skills')
              => (skills'[id].approved = FALSE /\ skills'[id].status = "pending")
      ]_vars

C2_Witness ==
    /\ regResult = "ok"
    /\ nextId = 2
    /\ 1 \in DOMAIN skills
    /\ skills[1].config = WebhookConfig
    /\ skills[1].approved = FALSE /\ skills[1].status = "pending"

\* C12: after any sequence of registry mutations the dispatchable listing
\* holds only documents that are approved and active now, and tools/list
\* names only such documents.
C12_ListingOnlyCallable ==
    /\ \A id \in getActiveApproved :
           id \in DOMAIN skills /\ skills[id].approved
           /\ skills[id].status = "active"
    /\ \A name \in handleToolsList :
           \E id \in DOMAIN skills :
               /\ skills[id].name = name
               /\ skills[id].approved /\ skills[id].status = "active"

C12_Witness ==
    /\ DOMAIN skills = {1, 2}
    /\ skills[1].approved /\ skills[1].status = "active"
    /\ skills[2].status = "active" /\ ~skills[2].approved
    /\ getActiveApproved = {1}
    /\ handleToolsList = {skills[1].name}

\* C22: when remove(id) commits, the document id is gone and no skillSecrets
\* row with skillId = id is left.
C22_RemoveCascades ==
    [][\A id \in 1..MaxSkills :
          (id \in DOMAIN skills /\ id \notin DOMAIN skills')
              => \A s \in secrets' : s.skillId # id
      ]_vars

C22_Witness ==
    /\ regResult = "ok"
    /\ nextId = 3
    /\ DOMAIN skills = {2}
    /\ secrets = {[skillId |-> 2, key |-> "API_KEY"]}

\* C23: after any sequence of create, update and remove no two documents of
\* the registry have the same name.
C23_NamesUnique ==
    \A a, b \in DOMAIN skills : a # b => skills[a].name # skills[b].name

\* C24: no sequence of create and update calls, whatever they change of
\* status, name or config, yields a document with approved = true.
C24_NeverApprovedByCreateOrUpdate ==
    \A id \in DOMAIN skills : ~skills[id].approved

C24_Witness ==
    /\ regResult = "ArgumentValidationError"
    /\ DOMAIN skills = {1, 2}
    /\ skills[1].status = "active"
    /\ skills[1].config = WebhookConfig
    /\ skills[2].name = skills[1].name
    /\ ~skills[1].approved /\ ~skills[2].approved

\* the gate lets a call of the document through (no domain, no server)
Callable(doc) ==
    LET verdict == checkSecurity(doc, [kind |-> "null", fields |-> {}],
                                 [domain |-> Undefined, mcpServer |-> "none"])
    IN  verdict.kind = "verdict" /\ verdict.allowed

\* C25: a step that takes the approval back also sets status = inactive, so the
\* document is not callable after reject; and from approved = false with status
\* = inactive no single step (an approve alone, a status change alone) makes it
\* callable.
C25_RejectedStaysUncallable ==
    [][\A id \in DOMAIN skills \cap DOMAIN skills' :
          /\ (skills[id].approved /\ ~skills'[id].approved)
                => (skills'[id].status = "inactive" /\ ~Callable(skills'[id]))
          /\ (~skills[id].approved /\ skills[id].status = "inactive")
                => ~Callable(skills'[id])
      ]_vars

C25_Witness ==
    /\ regResult = "ok"
    /\ 1 \in DOMAIN skills
    /\ skills[1].approved
    /\ skills[1].status = "inactive"
    /\ ~Callable(skills[1])

(***************************************************************************)
(* Properties of the tool-call path (SpecInvoke).                          *)
(***************************************************************************)
\* number of Audit Records of one call
AuditCount(call) ==
    Cardinality({i \in DOMAIN auditLog : auditLog[i].call = call})

\* the call has left executeTool
Returned(call) == call # inv.id \/ inv.pc \in {"respond", "idle"}

\* C3: every invocation of a capability, allowed or denied, successful or
\* failed, has exactly one Audit Record once it returned, and never two.
C3_ExactlyOneAuditRecord ==
    /\ \A call \in invocations : Returned(call) => AuditCount(call) = 1
    /\ \A call \in 1..requests : AuditCount(call) <= 1

C3_Witness ==
    /\ inv.pc = "idle"
    /\ invocations = {1, 2}
    /\ Len(auditLog) = 2
    /\ auditLog[1].success /\ auditLog[1].code = "passed"
    /\ ~auditLog[2].success /\ auditLog[2].code = "domain_blocked"

\* C4: within one invocation the gate comes first, the executor runs only
\* after an allowing verdict, the audit write comes last; an invocation of an
\* unapproved webhook capability issues no outbound HTTP call.
C4_GateThenExecThenAudit ==
    /\ events \in {<<>>, <<"gate">>, <<"gate", "exec">>, <<"gate", "audit">>,
                   <<"gate", "exec", "audit">>}
    /\ (Len(events) >= 2 /\ events[2] = "exec")
           => inv.verdict = Verdict(TRUE, "passed")
    /\ (iSkill.skillType = "webhook" /\ ~iSkill.approved) => httpCalls = <<>>

C4_Witness ==
    /\ iSkill.skillType = "webhook" /\ ~iSkill.approved
    /\ iSkill.status = "active" /\ iSkill.config = WebhookConfig
    /\ inv.pc = "respond"
    /\ inv.verdict = Verdict(FALSE, "unapproved")
    /\ events = <<"gate", "audit">>
    /\ httpCalls = <<>>
    /\ auditLog[Len(auditLog)] =
           [call |-> inv.id, skillName |-> "weather", success |-> FALSE,
            code |-> "unapproved"]

(***************************************************************************)
(* Summarization: skillSummary.aggregate folds skillInvocationLog into     *)
(* skillInvocationSummary.                                                 *)
(***************************************************************************)
\* rows the pass reads: .order('desc').take(1000)
AggregateTake == 1000
Durations == {10, 25}
Max2(a, b) == IF a >= b THEN a ELSE b
\* Math.round of the quotient a / b of non-negative integers, b > 0
RoundDiv(a, b) == (2 * a + b) \div (2 * b)

\* the latest n rows of a table kept oldest first
Latest(log, n) ==
    IF Len(log) <= n THEN log ELSE SubSeq(log, Len(log) - n + 1, Len(log))

RECURSIVE Sum(_)
\* the sum of a sequence of numbers
Sum(ns) == IF ns = <<>> THEN 0 ELSE Head(ns) + Sum(Tail(ns))

RECURSIVE MaxOf(_)
\* Math.max folded over a sequence of numbers, starting from 0
MaxOf(ns) == IF ns = <<>> THEN 0 ELSE Max2(Head(ns), MaxOf(Tail(ns)))

\* skillStats[skillName] of one pass over recentLogs
skillStats(recentLogs, skillName) ==
    LET Of(row) == row.skillName = skillName
        rows == SelectSeq(recentLogs, Of)
    IN  [total |-> Len(rows),
         success |-> Sum([i \in DOMAIN rows |-> IF rows[i].success THEN 1 ELSE 0]),
         failure |-> Sum([i \in DOMAIN rows |-> IF rows[i].success THEN 0 ELSE 1]),
         totalDuration |-> Sum([i \in DOMAIN rows |-> rows[i].durationMs]),
         lastInvokedAt |-> MaxOf([i \in DOMAIN rows |-> rows[i].timestamp])]

\* the summary document of skillName after the pass has handled its stats
FoldedSummary_DropsFailures(existing, skillName, stats, at) ==
    [skillName |-> skillName,
     totalInvocations |-> stats.total,
     successCount |-> stats.success,
     failureCount |-> 0,
     avgDurationMs |-> RoundDiv(stats.totalDuration, stats.total),
     lastInvokedAt |-> stats.lastInvokedAt,
     updatedAt |-> at]

FoldedSummary(existing, skillName, stats, at) ==
    IF existing # {}
    THEN LET doc == CHOOSE d \in existing : TRUE
         IN  [doc EXCEPT
                !.totalInvocations = doc.totalInvocations + stats.total,
                !.successCount = doc.successCount + stats.success,
                !.failureCount = doc.failureCount + stats.failure,
                !.avgDurationMs = RoundDiv(stats.totalDuration, stats.total),
                !.lastInvokedAt = Max2(doc.lastInvokedAt, stats.lastInvokedAt),
                !.updatedAt = at]
    ELSE [skillName |-> skillName,
          totalInvocations |-> stats.total,
          successCount |-> stats.success,
          failureCount |-> stats.failure,
          avgDurationMs |-> RoundDiv(stats.totalDuration, stats.total),
          lastInvokedAt |-> stats.lastInvokedAt,
          updatedAt |-> at]

\* .withIndex('by_skill').first(): the document of skillName, if there is one
getBySkill(skillName) ==
    IF skillName \in DOMAIN summary THEN {summary[skillName]} ELSE {}

\* one row is written to skillInvocationLog
logInvocation(skillName, success, durationMs) ==
    /\ Len(auditLog) < MaxLogs
    /\ auditLog' = Append(auditLog, [skillName |-> skillName,
                                     success |-> success,
                                     durationMs |-> durationMs,
                                     timestamp |-> now])
    /\ UNCHANGED <<iSkill, inv, events, httpCalls, apiUsage, requests,
                   invocations, lastResponse>>
    /\ UNCHANGED <<notSumVars, now, sumVars>>

aggregate ==
    /\ aggPasses < MaxAggregatePasses
    /\ LET recentLogs == Latest(auditLog, AggregateTake)
           seen == {recentLogs[i].skillName : i \in DOMAIN recentLogs}
       IN  summary' = [n \in DOMAIN summary \cup seen |->
                         IF n \in seen
                         THEN FoldedSummary(getBySkill(n), n,
                                            skillStats(recentLogs, n), now)
                         ELSE summary[n]]
    /\ aggPasses' = aggPasses + 1
    /\ covered' = Len(auditLog)
    /\ UNCHANGED <<notSumVars, invVars, now>>

SumTick ==
    /\ now < MaxSumClock
    /\ now' = now + 1
    /\ UNCHANGED <<notSumVars, invVars, sumVars>>

SumInit == GateIdle /\ RegInit /\ InvIdle /\ MoreIdle

SumNext ==
    \/ \E n \in Names, ok \in BOOLEAN, d \in Durations : logInvocation(n, ok, d)
    \/ aggregate
    \/ SumTick

SpecSummary == SumInit /\ [][SumNext]_vars

RowsOf(skillName) ==
    Cardinality({i \in DOMAIN auditLog : auditLog[i].skillName = skillName})

\* C13: after a single pass over a log that it covered in full, starting from
\* an empty summary, every capability with N logged invocations has
\* totalInvocations = N and successCount + failureCount = N.
C13_SinglePassCounts ==
    (aggPasses = 1 /\ covered = Len(auditLog) /\ Len(auditLog) <= AggregateTake)
        => \A n \in Names :
              RowsOf(n) > 0
                  => /\ n \in DOMAIN summary
                     /\ summary[n].totalInvocations = RowsOf(n)
                     /\ summary[n].successCount + summary[n].failureCount
                            = RowsOf(n)

C13_Witness ==
    /\ aggPasses = 1
    /\ covered = Len(auditLog)
    /\ \E n \in Names :
           /\ RowsOf(n) = 2
           /\ n \in DOMAIN summary
           /\ summary[n].totalInvocations = 2
           /\ summary[n].successCount = 1
           /\ summary[n].failureCount = 1

\* C14: across successive passes every log row is folded exactly once: once a
\* pass has covered the whole log, totalInvocations of each capability equals
\* the number of rows written for it.
C14_EachRowFoldedOnce ==
    (aggPasses >= 1 /\ covered = Len(auditLog) /\ Len(auditLog) <= AggregateTake)
        => \A n \in Names :
              RowsOf(n) > 0
                  => /\ n \in DOMAIN summary
                     /\ summary[n].totalInvocations = RowsOf(n)

(***************************************************************************)
(* Output truncation: truncateForLog, the webhook response and the outputs *)
(* of the template executors.  A text is a sequence of characters.         *)
(***************************************************************************)
\* '...[truncated]'
Marker == <<".", ".", ".", "[", "t", "r", "u", "n", "c", "a", "t", "e", "d", "]">>
\* truncateForLog's default maxLength
DefaultMaxLength == 500
\* webhookCaller's default for config.maxResponseSize
DefaultMaxResponseSize == 50000
\* the limit of executeApiCaller, executeRssFetcher and executeWebScraper
TemplateLimit == 10000

Alphabet == {"a", "."}
Repeat(c, n) == [i \in 1..n |-> c]
ShortTexts == UNION {[1..n -> Alphabet] : n \in 0..MaxTextLen}
\* outputs around each fixed limit
LongTexts ==
    {Repeat("a", n) : n \in {DefaultMaxLength, DefaultMaxLength + 1,
                             TemplateLimit, TemplateLimit + 1,
                             DefaultMaxResponseSize, DefaultMaxResponseSize + 1}}
Texts == ShortTexts \cup LongTexts
Sites == {"log", "webhook", "template"}
\* maxLength / config.maxResponseSize as passed: <<n>>, or <<>> when absent
LimitArgs == {<<n>> : n \in 0..MaxLimit} \cup {<<>>}

\* str.slice(0, n) for n >= 0
Slice(str, n) == SubSeq(str, 1, IF n < Len(str) THEN n ELSE Len(str))

truncateForLog_MarksAtLimit(str, maxLengthArg) ==
    LET maxLength == IF maxLengthArg = <<>> THEN DefaultMaxLength
                     ELSE maxLengthArg[1]
    IN  IF Len(str) < maxLength THEN str
        ELSE Slice(str, maxLength) \o Marker

truncateForLog(str, maxLengthArg) ==
    LET maxLength == IF maxLengthArg = <<>> THEN DefaultMaxLength
                     ELSE maxLengthArg[1]
    IN  IF Len(str) <= maxLength THEN str
        ELSE Slice(str, maxLength) \o Marker

\* the text webhookCaller returns for a response body
webhookResponse(text, maxResponseSize) ==
    LET maxSize == IF maxResponseSize = <<>> \/ maxResponseSize = <<0>>
                   THEN DefaultMaxResponseSize
                   ELSE maxResponseSize[1]
    IN  IF Len(text) > maxSize THEN Slice(text, maxSize) \o Marker
        ELSE text

\* the text a template executor returns for a response body
templateOutput(text) ==
    IF Len(text) > TemplateLimit THEN Slice(text, TemplateLimit) \o Marker
    ELSE text

Truncated(site, text, arg) ==
    CASE site = "log" -> truncateForLog(text, arg)
      [] site = "webhook" -> webhookResponse(text, arg)
      [] site = "template" -> templateOutput(text)

TruncInit ==
    /\ GateIdle
    /\ RegInit
    /\ InvIdle
    /\ now = 0
    /\ SumIdle
    /\ CalcIdle
    /\ SchedIdle
    /\ WebIdle
    /\ tText \in Texts
    /\ tSite \in Sites
    /\ tArg \in (IF tSite = "template" THEN {<<>>} ELSE LimitArgs)
    /\ tOut = <<>>
    /\ tOut2 = <<>>
    /\ tStage = 0

Truncate ==
    /\ tStage = 0
    /\ tOut' = Truncated(tSite, tText, tArg)
    /\ tStage' = 1
    /\ UNCHANGED <<tText, tSite, tArg, tOut2>>
    /\ UNCHANGED notTruncVars

TruncateAgain ==
    /\ tStage = 1
    /\ tOut2' = Truncated(tSite, tOut, tArg)
    /\ tStage' = 2
    /\ UNCHANGED <<tText, tSite, tArg, tOut>>
    /\ UNCHANGED notTruncVars

TruncNext == Truncate \/ TruncateAgain

SpecTrunc == TruncInit /\ [][TruncNext]_vars

\* the limit in force at the site of the truncation
LimitInForce ==
    CASE tSite = "log" -> IF tArg = <<>> THEN 500 ELSE tArg[1]
      [] tSite = "webhook" -> IF tArg \in {<<>>, <<0>>} THEN 50000 ELSE tArg[1]
      [] tSite = "template" -> 10000

\* C16: an output longer than the limit becomes its first limit characters
\* followed by '...[truncated]', an output of length <= limit is returned
\* verbatim, and truncating the result again leaves it unchanged.
C16_TruncationShape ==
    /\ tStage >= 1 =>
          IF Len(tText) > LimitInForce
          THEN /\ Len(tOut) = LimitInForce + 14
               /\ \A i \in 1..LimitInForce : tOut[i] = tText[i]
               /\ \A j \in 1..14 : tOut[LimitInForce + j] = Marker[j]
          ELSE tOut = tText
    /\ tStage = 2 => tOut2 = tOut

C16_Witness ==
    /\ tStage = 2
    /\ tSite = "webhook"
    /\ tArg = <<2>>
    /\ tText = <<"a", ".", ".">>
    /\ tOut = <<"a", ".">> \o Marker
    /\ tOut2 = tOut

(***************************************************************************)
(* Scheduler: calculateNextRun.  Time is counted in minutes since the      *)
(* epoch; the runtime's local time is UTC, and day 0 was a Thursday.       *)
(***************************************************************************)
MinutesPerDay == 1440
\* new Date(0).getDay()
EpochWeekday == 4
\* the time of day of (schedule.time || '09:00'), in minutes
DefaultTime == <<9, 0>>
\* schedule.dayOfWeek ?? 1
DefaultDayOfWeek == 1
\* schedule.intervalMinutes || 60
DefaultIntervalMinutes == 60

\* Date with setHours(0, 0, 0, 0)
DayStart(t) == (t \div MinutesPerDay) * MinutesPerDay
TimeOfDay(t) == t % MinutesPerDay
getDay(t) == (EpochWeekday + t \div MinutesPerDay) % 7

\* (schedule.time || '09:00').split(':').map(Number), as minutes of the day
MinuteOfDay(schedule) ==
    LET hm == IF schedule.time = <<>> THEN DefaultTime ELSE schedule.time
    IN  hm[1] * 60 + hm[2]
DayOfWeekOf(schedule) ==
    IF schedule.dayOfWeek = <<>> THEN DefaultDayOfWeek ELSE schedule.dayOfWeek[1]
IntervalOf(schedule) ==
    IF schedule.intervalMinutes = <<>> \/ schedule.intervalMinutes = <<0>>
    THEN DefaultIntervalMinutes
    ELSE schedule.intervalMinutes[1]

calculateNextRun_DueNowStaysToday(schedule, at) ==
    LET next == DayStart(at) + MinuteOfDay(schedule)
    IN  CASE schedule.type = "daily" ->
                IF next < at THEN next + MinutesPerDay ELSE next
          [] schedule.type = "weekly" ->
                LET daysUntilNext == (DayOfWeekOf(schedule) - getDay(at) + 7) % 7
                IN  IF daysUntilNext = 0 /\ next < at
                    THEN next + 7 * MinutesPerDay
                    ELSE next + daysUntilNext * MinutesPerDay
          [] schedule.type = "interval" -> at + IntervalOf(schedule)
          [] OTHER -> at + MinutesPerDay

calculateNextRun(schedule, at) ==
    LET next == DayStart(at) + MinuteOfDay(schedule)
    IN  CASE schedule.type = "daily" ->
                IF next <= at THEN next + MinutesPerDay ELSE next
          [] schedule.type = "weekly" ->
                LET daysUntilNext == (DayOfWeekOf(schedule) - getDay(at) + 7) % 7
                IN  IF daysUntilNext = 0 /\ next <= at
                    THEN next + 7 * MinutesPerDay
                    ELSE next + daysUntilNext * MinutesPerDay
          [] schedule.type = "interval" -> at + IntervalOf(schedule)
          [] OTHER -> at + MinutesPerDay

\* times of day at which a next run is computed
TimesOfDay == {0, 8 * 60, 8 * 60 + 59, 9 * 60, 9 * 60 + 1, 10 * 60, 23 * 60 + 59}
Instants == {d * MinutesPerDay + m : d \in 0..MaxDays, m \in TimesOfDay}
TimeArgs == {<<>>, <<9, 0>>, <<0, 0>>, <<23, 59>>}
DayOfWeekArgs == {<<>>} \cup {<<d>> : d \in 0..6}
IntervalArgs == {<<>>, <<0>>, <<1>>, <<90>>}
Schedules ==
    [type : {"daily"}, time : TimeArgs, dayOfWeek : {<<>>},
     intervalMinutes : {<<>>}]
    \cup [type : {"weekly"}, time : TimeArgs, dayOfWeek : DayOfWeekArgs,
          intervalMinutes : {<<>>}]
    \cup [type : {"interval"}, time : {<<>>}, dayOfWeek : {<<>>},
          intervalMinutes : IntervalArgs]

CalcInit ==
    /\ GateIdle
    /\ RegInit
    /\ InvIdle
    /\ SumIdle
    /\ TruncIdle
    /\ SchedIdle
    /\ WebIdle
    /\ now \in Instants
    /\ cSchedule \in Schedules
    /\ cNext = <<>>

CalcCall ==
    /\ cNext = <<>>
    /\ cNext' = <<calculateNextRun(cSchedule, now)>>
    /\ UNCHANGED <<notCalcVars, now, cSchedule>>

CalcNext == CalcCall

SpecNextRun == CalcInit /\ [][CalcNext]_vars

\* C17: for daily and weekly rules the result is the next occurrence of the
\* configured time of day (on the configured weekday for weekly) strictly after
\* now: daily 09:00 at 10:00 of day D gives 09:00 of D+1, at 08:00 gives 09:00
\* of D, at 09:00 exactly gives 09:00 of D+1; a weekly result is on the
\* configured weekday and at most 7 days ahead.
C17_NextOccurrence ==
    (cNext # <<>> /\ cSchedule.type \in {"daily", "weekly"}) =>
        LET next == cNext[1]
            day == now \div 1440
            nineDaily == cSchedule.type = "daily" /\ cSchedule.time \in {<<>>, <<9, 0>>}
        IN  /\ next > now
            /\ next % 1440 = MinuteOfDay(cSchedule)
            /\ cSchedule.type = "daily" => next - now <= 1440
            /\ cSchedule.type = "weekly" =>
                    /\ (4 + next \div 1440) % 7 = DayOfWeekOf(cSchedule)
                    /\ next - now <= 7 * 1440
            /\ (nineDaily /\ now = day * 1440 + 600) => next = (day + 1) * 1440 + 540
            /\ (nineDaily /\ now = day * 1440 + 480) => next = day * 1440 + 540
            /\ (nineDaily /\ now = day * 1440 + 540) => next = (day + 1) * 1440 + 540

C17_Witness ==
    /\ cSchedule = [type |-> "weekly", time |-> <<9, 0>>, dayOfWeek |-> <<5>>,
                    intervalMinutes |-> <<>>]
    /\ now = 1440 + 540
    /\ cNext = <<8 * 1440 + 540>>

(***************************************************************************)
(* Scheduler: the scheduledTasks table, its mutations, executeTask and     *)
(* checkAndExecute.  executeTask awaits the agent between reading the task *)
(* and markTaskRun, so other mutations and passes interleave there.        *)
(***************************************************************************)
\* the instants the scheduler's clock takes: midnight of day 0, then 09:00 of
\* day 0 and of the day after
SchedInstants == {0, 9 * 60, MinutesPerDay + 9 * 60}
SchedSchedules ==
    {[type |-> "daily", time |-> <<9, 0>>, dayOfWeek |-> <<>>,
      intervalMinutes |-> <<>>],
     [type |-> "interval", time |-> <<>>, dayOfWeek |-> <<>>,
      intervalMinutes |-> <<>>]}

createSchedule(schedule, enabled) ==
    /\ nextTaskId <= MaxTasks
    /\ tasks' = [id \in DOMAIN tasks \cup {nextTaskId} |->
                    IF id = nextTaskId
                    THEN [schedule |-> schedule,
                          enabled |-> enabled,
                          lastRunAt |-> <<>>,
                          nextRunAt |-> calculateNextRun(schedule, now),
                          createdAt |-> now,
                          runCount |-> 0]
                    ELSE tasks[id]]
    /\ nextTaskId' = nextTaskId + 1
    /\ UNCHANGED <<scheduleRuns, passes, now>>
    /\ UNCHANGED notSchedVars

toggleSchedule(taskId, enabled) ==
    /\ taskId \in DOMAIN tasks
    /\ tasks' = [tasks EXCEPT ![taskId].enabled = enabled]
    /\ UNCHANGED <<nextTaskId, scheduleRuns, passes, now>>
    /\ UNCHANGED notSchedVars

deleteSchedule(taskId) ==
    /\ taskId \in DOMAIN tasks
    /\ tasks' = [id \in DOMAIN tasks \ {taskId} |-> tasks[id]]
    /\ UNCHANGED <<nextTaskId, scheduleRuns, passes, now>>
    /\ UNCHANGED notSchedVars

\* the documents with nextRunAt <= now that are enabled, in index order
getDueTasks ==
    LET due == {id \in DOMAIN tasks :
                    tasks[id].nextRunAt <= now /\ tasks[id].enabled}
        Before(a, b) == \/ tasks[a].nextRunAt < tasks[b].nextRunAt
                        \/ tasks[a].nextRunAt = tasks[b].nextRunAt /\ a < b
    IN  CHOOSE s \in [1..Cardinality(due) -> due] :
            /\ {s[k] : k \in 1..Cardinality(due)} = due
            /\ \A j, k \in 1..Cardinality(due) : j < k => Before(s[j], s[k])

\* the scheduledTasks table after markTaskRun(taskId, ...) at time at
markTaskRun_OnlyOnSuccess(table, taskId, success, at) ==
    IF taskId \notin DOMAIN table \/ ~success THEN table
    ELSE [table EXCEPT
            ![taskId].lastRunAt = <<at>>,
            ![taskId].nextRunAt = calculateNextRun(table[taskId].schedule, at),
            ![taskId].runCount = table[taskId].runCount + 1]

markTaskRun(table, taskId, success, at) ==
    IF taskId \notin DOMAIN table THEN table
    ELSE [table EXCEPT
            ![taskId].lastRunAt = <<at>>,
            ![taskId].nextRunAt = calculateNextRun(table[taskId].schedule, at),
            ![taskId].runCount = table[taskId].runCount + 1]

\* the pass after results.push(result) for dueTasks[i]
Pushed_AbortsOnFailure(pass, result) ==
    [pass EXCEPT !.results = Append(pass.results, result),
                 !.i = pass.i + 1,
                 !.pc = IF pass.i + 1 > Len(pass.dueTasks) \/ ~result.success
                        THEN "done" ELSE "loop"]

Pushed(pass, result) ==
    [pass EXCEPT !.results = Append(pass.results, result),
                 !.i = pass.i + 1,
                 !.pc = IF pass.i + 1 > Len(pass.dueTasks)
                        THEN "done" ELSE "loop"]

\* a pass starts: it reads the due tasks and returns at once if there are none
checkAndExecute(p) ==
    /\ passes[p].pc \in {"idle", "done"}
    /\ passes' = [passes EXCEPT ![p] =
                     [pc |-> IF getDueTasks = <<>> THEN "done" ELSE "loop",
                      dueTasks |-> getDueTasks,
                      i |-> 1,
                      results |-> <<>>]]
    /\ UNCHANGED <<tasks, nextTaskId, scheduleRuns, now>>
    /\ UNCHANGED notSchedVars

\* executeTask up to the start of the agent: the task is read and checked
executeTaskStart_NoEnabledCheck(p) ==
    /\ passes[p].pc = "loop"
    /\ LET taskId == passes[p].dueTasks[passes[p].i]
       IN  IF taskId \notin DOMAIN tasks
           THEN passes' = [passes EXCEPT ![p] =
                             Pushed(passes[p], [taskId |-> taskId,
                                                success |-> FALSE,
                                                error |-> "Task not found or disabled"])]
           ELSE passes' = [passes EXCEPT ![p].pc = "running"]
    /\ UNCHANGED <<tasks, nextTaskId, scheduleRuns, now>>
    /\ UNCHANGED notSchedVars

executeTaskStart(p) ==
    /\ passes[p].pc = "loop"
    /\ LET taskId == passes[p].dueTasks[passes[p].i]
       IN  IF taskId \notin DOMAIN tasks \/ ~tasks[taskId].enabled
           THEN passes' = [passes EXCEPT ![p] =
                             Pushed(passes[p], [taskId |-> taskId,
                                                success |-> FALSE,
                                                error |-> "Task not found or disabled"])]
           ELSE passes' = [passes EXCEPT ![p].pc = "running"]
    /\ UNCHANGED <<tasks, nextTaskId, scheduleRuns, now>>
    /\ UNCHANGED notSchedVars

\* ctx.runAction(executeTask) rejects: checkAndExecute's catch records it
executeTaskThrows(p) ==
    /\ passes[p].pc = "loop"
    /\ passes' = [passes EXCEPT ![p] =
                     Pushed(passes[p], [taskId |-> passes[p].dueTasks[passes[p].i],
                                        success |-> FALSE,
                                        error |-> "thrown"])]
    /\ UNCHANGED <<tasks, nextTaskId, scheduleRuns, now>>
    /\ UNCHANGED notSchedVars

\* the agent returns (success) or throws: markTaskRun, then the result
executeTaskFinish(p, success) ==
    /\ passes[p].pc = "running"
    /\ LET taskId == passes[p].dueTasks[passes[p].i]
       IN  /\ tasks' = markTaskRun(tasks, taskId, success, now)
           /\ scheduleRuns' = IF taskId \in DOMAIN tasks
                              THEN scheduleRuns + 1
                              ELSE scheduleRuns
           /\ passes' = [passes EXCEPT ![p] =
                            Pushed(passes[p], [taskId |-> taskId,
                                               success |-> success,
                                               error |-> IF success THEN "none"
                                                         ELSE "agent"])]
    /\ UNCHANGED <<nextTaskId, now>>
    /\ UNCHANGED notSchedVars

SchedTick ==
    /\ \E t \in SchedInstants : t > now /\ now' = t
    /\ UNCHANGED schedVars
    /\ UNCHANGED notSchedVars

SchedInit == GateIdle /\ RegInit /\ InvIdle /\ MoreIdle

SchedNext ==
    \/ \E s \in SchedSchedules, e \in BOOLEAN : createSchedule(s, e)
    \/ \E t \in 1..MaxTasks, e \in BOOLEAN : toggleSchedule(t, e)
    \/ \E t \in 1..MaxTasks : deleteSchedule(t)
    \/ \E p \in Passes : checkAndExecute(p)
    \/ \E p \in Passes : executeTaskStart(p)
    \/ \E p \in Passes : executeTaskThrows(p)
    \/ \E p \in Passes, ok \in BOOLEAN : executeTaskFinish(p, ok)
    \/ SchedTick

SpecSched == SchedInit /\ [][SchedNext]_vars

\* the task a pass is executing
Current(p) == passes[p].dueTasks[passes[p].i]
\* the step ends the execution of task t that pass p had started
Finishes(p, t) ==
    /\ passes[p].pc = "running"
    /\ Current(p) = t
    /\ passes'[p].pc # "running"
\* the step starts the agent on task t for pass p
Starts(p, t) ==
    /\ passes[p].pc = "loop"
    /\ Current(p) = t
    /\ passes'[p].pc = "running"

\* C18: every execution of a task, successful or failed, sets lastRunAt to the
\* time of the run, adds exactly 1 to runCount and recomputes nextRunAt from the
\* stored rule to a time after the run, so the task is not due in that instant.
C18_RunRecorded ==
    [][\A p \in Passes : \A t \in DOMAIN tasks :
          Finishes(p, t) =>
              /\ t \in DOMAIN tasks'
              /\ tasks'[t].lastRunAt = <<now>>
              /\ tasks'[t].runCount = tasks[t].runCount + 1
              /\ tasks'[t].schedule = tasks[t].schedule
              /\ tasks'[t].nextRunAt > now
              /\ tasks[t].schedule.type = "daily"
                    => tasks'[t].nextRunAt % 1440 = 9 * 60
              /\ tasks[t].schedule.type = "interval"
                    => tasks'[t].nextRunAt = now + 60
              /\ scheduleRuns' = scheduleRuns + 1]_vars

C18_Witness ==
    \E p \in Passes : \E t \in DOMAIN tasks :
        /\ passes[p].results # <<>>
        /\ passes[p].results[Len(passes[p].results)]
              = [taskId |-> t, success |-> FALSE, error |-> "agent"]
        /\ tasks[t].runCount = 1
        /\ tasks[t].lastRunAt = <<now>>
        /\ tasks[t].nextRunAt > now

\* C19: a pass attempts every task it found due, whatever happened to the tasks
\* before it: while it runs, each earlier task has left a result, and when it
\* completes there is one result per due task, in order.
C19_PassCoversAllDue ==
    \A p \in Passes :
        /\ passes[p].pc \in {"loop", "running"} =>
              /\ passes[p].i <= Len(passes[p].dueTasks)
              /\ Len(passes[p].results) = passes[p].i - 1
        /\ passes[p].pc = "done" =>
              /\ Len(passes[p].results) = Len(passes[p].dueTasks)
              /\ \A k \in DOMAIN passes[p].results :
                    passes[p].results[k].taskId = passes[p].dueTasks[k]

C19_Witness ==
    \E p \in Passes :
        /\ passes[p].pc = "done"
        /\ Len(passes[p].dueTasks) = 2
        /\ passes[p].results[1].error = "agent"
        /\ ~passes[p].results[1].success
        /\ passes[p].results[2].success

\* a step leaves nextRunAt, lastRunAt and runCount of task t as they are
RunFieldsKept(t) ==
    /\ tasks'[t].nextRunAt = tasks[t].nextRunAt
    /\ tasks'[t].lastRunAt = tasks[t].lastRunAt
    /\ tasks'[t].runCount = tasks[t].runCount

\* C20 as stated: disabling changes only enabled; no execution of a disabled
\* task starts, even if a pass had already selected it; and as long as the task
\* is disabled its nextRunAt, lastRunAt and runCount stay as they were.
C20_DisabledTaskPreserved ==
    [][\A t \in DOMAIN tasks \cap DOMAIN tasks' :
          /\ tasks'[t].enabled # tasks[t].enabled => RunFieldsKept(t)
          /\ \A p \in Passes : Starts(p, t) => tasks[t].enabled
          /\ ~tasks[t].enabled => RunFieldsKept(t)]_vars

\* C20 as amended: disabling changes only enabled; no execution of a disabled
\* task starts, even if a pass had already selected it; the fields of a disabled
\* task change only when an execution that had started before completes.
C20_DisabledTaskNotStarted ==
    [][\A t \in DOMAIN tasks \cap DOMAIN tasks' :
          /\ tasks'[t].enabled # tasks[t].enabled => RunFieldsKept(t)
          /\ \A p \in Passes : Starts(p, t) => tasks[t].enabled
          /\ (~tasks[t].enabled /\ ~RunFieldsKept(t))
                => \E p \in Passes : Finishes(p, t)]_vars

C20_Witness ==
    \E p \in Passes : \E t \in DOMAIN tasks :
        /\ passes[p].results # <<>>
        /\ passes[p].results[Len(passes[p].results)]
              = [taskId |-> t, success |-> FALSE,
                 error |-> "Task not found or disabled"]
        /\ ~tasks[t].enabled
        /\ tasks[t].nextRunAt <= now
        /\ tasks[t].runCount = 0

(***************************************************************************)
(* Two invocations of checkAndExecute at once: nothing in the handlers      *)
(* keeps a second invocation from starting while the first is in its loop.  *)
(***************************************************************************)
OverlapPasses == {"first", "second"}

OverlapInit ==
    /\ GateIdle
    /\ RegInit
    /\ InvIdle
    /\ now = 0
    /\ SumIdle
    /\ TruncIdle
    /\ CalcIdle
    /\ WebIdle
    /\ tasks = <<>>
    /\ nextTaskId = 1
    /\ scheduleRuns = 0
    /\ passes = [p \in OverlapPasses |-> IdlePass]

OverlapNext ==
    \/ \E s \in SchedSchedules : createSchedule(s, TRUE)
    \/ \E p \in OverlapPasses : checkAndExecute(p)
    \/ \E p \in OverlapPasses : executeTaskStart(p)
    \/ \E p \in OverlapPasses, ok \in BOOLEAN : executeTaskFinish(p, ok)
    \/ SchedTick

SpecOverlap == OverlapInit /\ [][OverlapNext]_vars

\* C30: a task is executed once per due occurrence: an execution starts only
\* for a task that is still due and that no other pass is executing, and a
\* run is recorded only for an occurrence no other pass has recorded yet.
C30_OncePerOccurrence ==
    [][\A p \in OverlapPasses : \A t \in DOMAIN tasks :
          /\ Starts(p, t) =>
                /\ tasks[t].nextRunAt <= now
                /\ \A q \in OverlapPasses \ {p} :
                      ~(passes[q].pc = "running" /\ Current(q) = t)
          /\ Finishes(p, t) => tasks[t].nextRunAt <= now]_vars

(***************************************************************************)
(* The periodic jobs: crons.ts registers the jobs below and nothing else.  *)
(* A registered job whose handler is in the source fires its handler; the  *)
(* table of due tasks is read only by checkAndExecute.                     *)
(***************************************************************************)
RegisteredCrons ==
    {"skillSummary.aggregate", "mcpServers.healthCheck",
     "skillInvocations.cleanup", "apiUsage.aggregate", "apiUsage.cleanup"}

\* one firing of a periodic job
cronFire(job) ==
    /\ job \in RegisteredCrons
    /\ CASE job = "skillSummary.aggregate" -> aggregate
         [] job = "scheduledTasks.checkAndExecute" ->
                \E p \in Passes : checkAndExecute(p)
         [] OTHER -> FALSE

CronNext ==
    \/ \E s \in SchedSchedules, e \in BOOLEAN : createSchedule(s, e)
    \/ \E t \in 1..MaxTasks, e \in BOOLEAN : toggleSchedule(t, e)
    \/ \E t \in 1..MaxTasks : deleteSchedule(t)
    \/ \E job \in RegisteredCrons : cronFire(job)
    \/ SchedTick

\* time passes and every registered job keeps firing
CronFairness ==
    /\ WF_vars(SchedTick)
    /\ \A job \in RegisteredCrons : WF_vars(cronFire(job))

SpecCron == SchedInit /\ [][CronNext]_vars /\ CronFairness

EnabledAndDue(t) ==
    /\ t \in DOMAIN tasks
    /\ tasks[t].enabled
    /\ tasks[t].nextRunAt <= now

\* C21: with the registered periodic jobs firing fairly, a task that is enabled
\* and due is eventually selected and executed: it does not stay due forever.
C21_DueTaskEventuallyRun ==
    \A t \in 1..MaxTasks : EnabledAndDue(t) ~> ~EnabledAndDue(t)

\* C29: in every verdict checkSecurity returns, allowed is true exactly when
\* the code is passed.
C29_AllowedIffPassed ==
    gResult.kind = "verdict" => (gResult.allowed <=> gResult.code = "passed")

C29_Witness ==
    /\ gResult.kind = "verdict"
    /\ ~gResult.allowed
    /\ gResult.code = "mcp_unapproved"
    /\ gSkill.approved
    /\ gSkill.status = "active"

\* ---------------------------------------------------------------------------
\* The webhook executor: one call of webhookCaller({config, input, skillId})
\* ---------------------------------------------------------------------------

\* a header value: a literal string, a placeholder 'secret:KEY', or the
\* encryptedValue of the skillSecrets row (owner, key)
Literal == [kind |-> "literal", key |-> "none", owner |-> 0]
Placeholder(key) == [kind |-> "placeholder", key |-> key, owner |-> 0]
EncryptedValue(secret) ==
    [kind |-> "secret", key |-> secret.key, owner |-> secret.skillId]

\* parsedConfig.headers: absent, or one Authorization header
ConfigHeaders ==
    {<<>>}
    \cup [{"Authorization"} ->
             {Literal, Placeholder("API_KEY"), Placeholder("OTHER_KEY")}]

\* what the server at config.url does with the request: late is a 2xx
\* response that arrives after the capability's timeoutMs has passed
WebResponses == {"ok", "non2xx", "redirect", "late"}

\* a query that returns the rows of every skill
secretsBySkill_AllSkills(skillId) == secrets

\* skillSecrets:getBySkill: the rows of the by_skill index for skillId
secretsBySkill(skillId) == {s \in secrets : s.skillId = skillId}

\* the headers of the request: Content-Type, then the headers of the config,
\* then each value that starts with 'secret:' replaced by the encryptedValue
\* of the row found by key; a placeholder with no row is sent as it is
ResolvedHeaders(headers, found) ==
    [h \in {"Content-Type"} \cup DOMAIN headers |->
       IF h \notin DOMAIN headers
       THEN Literal
       ELSE IF headers[h].kind = "placeholder"
               /\ \E s \in found : s.key = headers[h].key
       THEN EncryptedValue(CHOOSE s \in found : s.key = headers[h].key)
       ELSE headers[h]]

\* a fetch that follows a redirect to its Location
fetch_FollowsRedirect(redirect, response, headers) ==
    IF response = "redirect"
    THEN [requests |-> <<[target |-> "url", headers |-> headers],
                         [target |-> "location", headers |-> headers]>>,
          settled |-> "ok"]
    ELSE [requests |-> <<[target |-> "url", headers |-> headers]>>,
          settled |-> IF response = "non2xx" THEN "non2xx" ELSE "ok"]

\* fetch(url, {..., redirect}): one request to the url; with redirect: 'error'
\* a redirect response rejects the promise and its Location is not requested;
\* no signal is passed, so a late response is awaited and resolves
fetch(redirect, response, headers) ==
    IF response = "redirect" /\ redirect = "follow"
    THEN [requests |-> <<[target |-> "url", headers |-> headers],
                         [target |-> "location", headers |-> headers]>>,
          settled |-> "ok"]
    ELSE [requests |-> <<[target |-> "url", headers |-> headers]>>,
          settled |-> CASE response = "redirect" -> "rejected"
                        [] response = "non2xx" -> "non2xx"
                        [] OTHER -> "ok"]

\* the handler of webhookCaller: parse the config, read the secrets of
\* skillId, resolve the headers, fetch with redirect: 'error'; a rejected
\* fetch and a non-2xx response throw, anything else is returned as output
webhookCall(response) ==
    /\ wCall.pc = "called"
    /\ IF wCall.config.kind = "undefined" \/ JsonParseThrows(wCall.config)
          \/ ~wCall.config.hasUrl
       THEN wCall' = [wCall EXCEPT !.pc = "done", !.outcome = "error"]
       ELSE LET found == secretsBySkill(wCall.skillId)
                sent == fetch("error", response,
                              ResolvedHeaders(wCall.headers, found))
            IN wCall' = [wCall EXCEPT
                   !.pc = "done",
                   !.response = response,
                   !.requests = sent.requests,
                   !.outcome = IF sent.settled = "ok"
                               THEN "output" ELSE "error"]
    /\ UNCHANGED <<gateVars, regVars, invVars, now, sumVars, truncVars,
                   calcVars, schedVars>>

\* two webhook skills, any secrets stored for either of them, and a call
\* about to run for one of them
WebInit ==
    /\ GateIdle
    /\ InvIdle
    /\ now = 0
    /\ SumIdle
    /\ TruncIdle
    /\ CalcIdle
    /\ SchedIdle
    /\ skills = [id \in {1, 2} |->
                   NewSkillDoc([name |-> IF id = 1 THEN "calc" ELSE "weather",
                                skillType |-> "webhook",
                                config |-> WebhookConfig, extra |-> "none"])]
    /\ nextId = 3
    /\ regResult = "ok"
    /\ secrets \in SUBSET [skillId : {1, 2}, key : SecretKeys]
    /\ \E id \in {1, 2}, config \in InvokeConfigs, headers \in ConfigHeaders :
         wCall = [pc |-> "called", skillId |-> id, config |-> config,
                  headers |-> headers, response |-> "none",
                  requests |-> <<>>, outcome |-> "none"]

WebNext == \E response \in WebResponses : webhookCall(response)

SpecWebhook == WebInit /\ [][WebNext]_vars

\* C26: a webhook call answered by a redirect ends as a failure, the
\* redirect target is never requested, and the call is made once.
C26_RedirectNeverFollowed ==
    (wCall.pc = "done" /\ wCall.response = "redirect")
        => /\ wCall.outcome = "error"
           /\ Len(wCall.requests) = 1
           /\ \A i \in DOMAIN wCall.requests :
                wCall.requests[i].target = "url"

C26_Witness ==
    /\ wCall.pc = "done"
    /\ wCall.response = "redirect"
    /\ wCall.outcome = "error"
    /\ Len(wCall.requests) = 1

\* C27: a webhook call whose response arrives after the capability's timeoutMs
\* ends as a timeout failure: the late result is not returned as output.
C27_LateResultIsTimeout ==
    (wCall.pc = "done" /\ wCall.response = "late")
        => wCall.outcome = "timeout"

\* C28: the headers a webhook call sends are resolved from the secrets of the
\* skill being executed only: a sent value that is a secret belongs to that
\* skill, a placeholder whose key that skill does not hold is sent unresolved
\* whatever other skills hold, and the call changes neither the headers of
\* its config nor the stored configs and secrets.
C28_SecretsIsolatedPerSkill ==
    [][wCall'.pc = "done" =>
         /\ \A i \in DOMAIN wCall'.requests :
              \A h \in DOMAIN wCall'.requests[i].headers :
                LET v == wCall'.requests[i].headers[h]
                IN /\ v.kind = "secret" =>
                        /\ v.owner = wCall.skillId
                        /\ h \in DOMAIN wCall.headers
                        /\ wCall.headers[h] = Placeholder(v.key)
                   /\ (/\ h \in DOMAIN wCall.headers
                       /\ ~\E s \in secrets : /\ s.skillId = wCall.skillId
                                              /\ s.key = wCall.headers[h].key)
                        => v = wCall.headers[h]
         /\ wCall'.headers = wCall.headers
         /\ wCall'.config = wCall.config
         /\ skills' = skills
         /\ secrets' = secrets]_vars

C28_Witness ==
    /\ wCall.pc = "done"
    /\ wCall.skillId = 1
    /\ wCall.headers = [h \in {"Authorization"} |-> Placeholder("API_KEY")]
    /\ secrets = {[skillId |-> 2, key |-> "API_KEY"]}
    /\ Len(wCall.requests) = 1
    /\ wCall.requests[1].headers["Authorization"] = Placeholder("API_KEY")

====
